---------------------------- MODULE Spec2Model ----------------------------
(***************************************************************************)
(* A model of acctop.py, the terminal resource monitor.                    *)
(*                                                                         *)
(* Percentages are Python floats in the program.  Here they are fixed      *)
(* point integers counting thousandths of a percent (Milli units), so      *)
(* 50.0 % is 50000 and the per-user threshold 0.01 % is 10.  Sizes are     *)
(* counted in MiB.  Strings are modelled by their visible structure        *)
(* (colour, number of '#' cells, number of blank cells, formatted number). *)
(***************************************************************************)
EXTENDS Integers, Sequences, FiniteSets, TLC

VARIABLES
    percentage,         \* argument of a bar renderer (Milli units)
    bar_length,         \* argument of a bar renderer
    bar,                \* what the bar renderer returned
    cpu_percentages,    \* psutil.cpu_percent(percpu=True)
    terminal,           \* the terminal: attached or not (tty), and its width
    cpu_usage,          \* what display_cpu_usage_in_columns returned / raised
    procs,              \* psutil.process_iter(...): sequence of proc.info
    num_cpus,           \* psutil.cpu_count()
    user_usage,         \* what display_user_usage returned
    partitions,         \* psutil.disk_partitions() with each disk_usage outcome
    disk_usage,         \* what display_disk_usage returned
    disk_io,            \* psutil.disk_io_counters(perdisk=True): disk names
    disk_io_out,        \* what display_disk_io returned / raised
    args,               \* parsed command line flags
    pc,                 \* position of the __main__ script
    output,             \* the list `output` of the current tick
    stdout,             \* everything printed so far, one element per print()
    tick,               \* number of ticks started
    raised,             \* the exception raised in the script, or "none"
    sigint,             \* a SIGINT (Ctrl+C) has been delivered to the process
    exit_code           \* process exit status, -1 while running

vars == <<percentage, bar_length, bar, cpu_percentages, terminal, cpu_usage,
          procs, num_cpus, user_usage, partitions, disk_usage, disk_io,
          disk_io_out, args, pc, output, stdout, tick, raised, sigint, exit_code>>

barVars  == <<percentage, bar_length, bar>>
cpuVars  == <<cpu_percentages, cpu_usage>>
userVars == <<procs, num_cpus, user_usage>>
duVars   == <<partitions, disk_usage>>
dioVars  == <<disk_io, disk_io_out>>
loopVars == <<args, pc, output, stdout, tick, raised, sigint, exit_code>>

-----------------------------------------------------------------------------
(* Bounds of the model *)

MaxPercentTenths == 1050    \* bar percentages range over 0.0 .. 105.0 %
MaxBarLength == 30          \* bar lengths range over 1 .. 30

-----------------------------------------------------------------------------
(* Units and small helpers *)

Milli == 1000

Max(a, b) == IF a >= b THEN a ELSE b
Min(a, b) == IF a <= b THEN a ELSE b

\* f"{x:.2f}" of a value given in Milli units: the number of hundredths shown.
\* (Ties are rounded up here; in the program they follow the binary value.)
Format2f(milli) == (milli + 5) \div 10

\* 'c' * n in Python: the empty string when n is negative.
Repeat(n) == Max(n, 0)

NotCalled == [fn |-> "none"]

-----------------------------------------------------------------------------
(* Formatting primitives *)

GREEN  == "GREEN"
YELLOW == "YELLOW"
RED    == "RED"

get_usage_color_strict(p) ==
    IF p <= 50 * Milli THEN GREEN
    ELSE IF p <= 80 * Milli THEN YELLOW
    ELSE RED

get_usage_color(p) ==
    IF p < 50 * Milli THEN GREEN
    ELSE IF p < 80 * Milli THEN YELLOW
    ELSE RED

\* int((percentage / 100) * bar_length) for a non-negative percentage
num_bars_of(p, L) == (p * L) \div (100 * Milli)

\* f"{color}[{'#' * num_bars}{' ' * (bar_length - num_bars)}] {percentage:6.2f}%{RESET_COLOR}"
usage_bar(fn, p, L) ==
    [fn     |-> fn,
     color  |-> get_usage_color(p),
     hashes |-> Repeat(num_bars_of(p, L)),
     blanks |-> Repeat(L - num_bars_of(p, L)),
     text   |-> Format2f(p)]

create_cpu_usage_bar(p, L)    == usage_bar("create_cpu_usage_bar", p, L)
create_memory_usage_bar(p, L) == usage_bar("create_memory_usage_bar", p, L)
create_disk_usage_bar(p, L)   == usage_bar("create_disk_usage_bar", p, L)

\* len() of a rendered bar: colour escape, brackets, cells, blank, number, '%', reset
len_color == 7
len_reset == 4
lencolors == len_color + len_reset
len_percent_text(p) == IF Format2f(p) < 100000 THEN 6 ELSE 7
len_bar(b, p) == len_color + 1 + b.hashes + b.blanks + 1 + 1 + len_percent_text(p) + 1 + len_reset

-----------------------------------------------------------------------------
(* Specification of the bar renderers: the inputs are drawn in Init, the   *)
(* actions call the three renderers.                                       *)

PercentSamples ==
    {k * (Milli \div 10) : k \in 0..MaxPercentTenths}
        \cup {50 * Milli - 1, 50 * Milli + 1, 80 * Milli - 1, 80 * Milli + 1}

IdleBar  == percentage = 0 /\ bar_length = 1 /\ bar = NotCalled
IdleCpu  == cpu_percentages = <<>> /\ cpu_usage = NotCalled
IdleUser == procs = <<>> /\ num_cpus = 1 /\ user_usage = NotCalled
IdleDu   == partitions = <<>> /\ disk_usage = NotCalled
IdleDio  == disk_io = <<>> /\ disk_io_out = NotCalled
IdleLoop == /\ args = <<>> /\ pc = "none" /\ output = <<>>
            /\ stdout = <<>> /\ tick = 0 /\ raised = "none" /\ sigint = FALSE
            /\ exit_code = -1
NoTerminal == [tty |-> FALSE, columns |-> 0]
IdleTerminal == terminal = NoTerminal

InitBar ==
    /\ percentage \in PercentSamples
    /\ bar_length \in 1..MaxBarLength
    /\ bar = NotCalled
    /\ IdleCpu /\ IdleUser /\ IdleDu /\ IdleDio /\ IdleLoop /\ IdleTerminal

CallCpuBar ==
    /\ bar' = create_cpu_usage_bar(percentage, bar_length)
    /\ UNCHANGED <<percentage, bar_length, cpuVars, userVars, duVars, dioVars, loopVars, terminal>>

CallMemoryBar ==
    /\ bar' = create_memory_usage_bar(percentage, bar_length)
    /\ UNCHANGED <<percentage, bar_length, cpuVars, userVars, duVars, dioVars, loopVars, terminal>>

CallDiskBar ==
    /\ bar' = create_disk_usage_bar(percentage, bar_length)
    /\ UNCHANGED <<percentage, bar_length, cpuVars, userVars, duVars, dioVars, loopVars, terminal>>

NextBar == CallCpuBar \/ CallMemoryBar \/ CallDiskBar

SpecBar == InitBar /\ [][NextBar]_vars

BarCalled == bar.fn # "none"

\* C1: every bar renderer draws floor(p/100 * L) '#' cells, between 0 and L,
\* and the body between the brackets is exactly L cells wide, also for p
\* slightly above 100 where the filled count is clamped to L.
C1_BarNeverOverflows ==
    BarCalled =>
        /\ bar.hashes = Min((percentage * bar_length) \div (100 * Milli), bar_length)
        /\ 0 <= bar.hashes /\ bar.hashes <= bar_length
        /\ bar.hashes + bar.blanks = bar_length

\* C5: the colour is green iff p < 50, yellow iff 50 <= p < 80, red iff
\* p >= 80, for each of the renderers that use the classifier.
C5_ColorBands ==
    BarCalled =>
        /\ (bar.color = GREEN)  <=> (percentage < 50 * Milli)
        /\ (bar.color = YELLOW) <=> (50 * Milli <= percentage /\ percentage < 80 * Milli)
        /\ (bar.color = RED)    <=> (percentage >= 80 * Milli)

\* C5 witness: a bar rendered for exactly 50 % is yellow and one for exactly 80 % is red
C5_Witness ==
    /\ BarCalled
    /\ \/ percentage = 50 * Milli /\ bar.color = YELLOW
       \/ percentage = 80 * Milli /\ bar.color = RED

-----------------------------------------------------------------------------
(* CPU section and its layout *)

CPU_BAR_LENGTH == 10

RECURSIVE digits(_)
\* len(str(n)) for n >= 0
digits(n) == IF n < 10 THEN 1 ELSE 1 + digits(n \div 10)

RECURSIVE SeqSum(_)
SeqSum(s) == IF s = <<>> THEN 0 ELSE Head(s) + SeqSum(Tail(s))

RECURSIVE SeqMax(_)
\* max() of a non-empty sequence
SeqMax(s) == IF Len(s) = 1 THEN s[1] ELSE Max(Head(s), SeqMax(Tail(s)))

\* get_cpu_columns(column_width): os.get_terminal_size() raises OSError
\* when no terminal is attached
get_cpu_columns(column_width, term) ==
    IF ~term.tty THEN 1 ELSE term.columns \div column_width

\* column_width as computed by display_cpu_usage_in_columns
cpu_column_width(pcts) ==
    LET core_label_width == 5
        core_number_width == digits(Len(pcts))
        core_joined_label_width == core_label_width + core_number_width
        max_bar_length ==
            SeqMax([i \in 1..Len(pcts) |->
                      len_bar(create_cpu_usage_bar(pcts[i], CPU_BAR_LENGTH), pcts[i])])
              - lencolors
    IN  core_joined_label_width + max_bar_length + 2 + 5

\* the entry of core i (0-based), and the blank cell that pads a row
core_entry(i, p) ==
    [kind |-> "core", core |-> i, bar |-> create_cpu_usage_bar(p, CPU_BAR_LENGTH)]
blank_cell(column_width) == [kind |-> "blank", width |-> column_width]

\* while len(row_data) < columns: row_data.append(" " * column_width)
pad_row(row_data, columns, column_width) ==
    row_data \o [k \in 1..(columns - Len(row_data)) |-> blank_cell(column_width)]

row_due_full_only(i, n, columns) == (i + 1) % columns = 0

\* if (i + 1) % columns == 0 or i == len(cpu_percentages) - 1
row_due(i, n, columns) == (i + 1) % columns = 0 \/ i = n - 1

RECURSIVE cpu_rows_loop(_, _, _, _, _, _)
\* the for loop over enumerate(cpu_percentages), from index i on (columns >= 1)
cpu_rows_loop(i, row_data, rows, pcts, columns, column_width) ==
    IF i >= Len(pcts) THEN rows
    ELSE LET rd == Append(row_data, core_entry(i, pcts[i + 1]))
         IN  IF row_due(i, Len(pcts), columns)
             THEN cpu_rows_loop(i + 1, <<>>,
                                Append(rows, pad_row(rd, columns, column_width)),
                                pcts, columns, column_width)
             ELSE cpu_rows_loop(i + 1, rd, rows, pcts, columns, column_width)

display_cpu_usage_in_columns(pcts, term) ==
    LET fn == "display_cpu_usage_in_columns"
    IN  IF Len(pcts) = 0 THEN [fn |-> fn, raised |-> "ValueError"]
        ELSE LET column_width == cpu_column_width(pcts)
                 columns == get_cpu_columns(column_width, term)
             IN  IF columns = 0
                 THEN [fn |-> fn, raised |-> "ZeroDivisionError"]
                 ELSE [fn |-> fn, raised |-> "none",
                       column_width |-> column_width,
                       columns |-> columns,
                       rows |-> cpu_rows_loop(0, <<>>, <<>>, pcts, columns, column_width),
                       average |-> create_cpu_usage_bar(SeqSum(pcts) \div Len(pcts),
                                                        CPU_BAR_LENGTH)]

MaxCores == 9               \* hosts have 1 .. MaxCores logical cores
MaxTerminalWidth == 105     \* terminals are 0 .. MaxTerminalWidth columns wide

CpuSamples == {0, 100 * Milli}
Terminals == {NoTerminal} \cup {[tty |-> TRUE, columns |-> w] : w \in 0..MaxTerminalWidth}

InitCpu ==
    /\ \E n \in 1..MaxCores : cpu_percentages \in [1..n -> CpuSamples]
    /\ terminal \in Terminals
    /\ cpu_usage = NotCalled
    /\ IdleBar /\ IdleUser /\ IdleDu /\ IdleDio /\ IdleLoop

CallDisplayCpu ==
    /\ cpu_usage = NotCalled
    /\ cpu_usage' = display_cpu_usage_in_columns(cpu_percentages, terminal)
    /\ UNCHANGED <<cpu_percentages, terminal, barVars, userVars, duVars, dioVars, loopVars>>

NextCpu == CallDisplayCpu

SpecCpu == InitCpu /\ [][NextCpu]_vars

CpuCalled == cpu_usage.fn # "none"
CpuRendered == CpuCalled /\ cpu_usage.raised = "none"

\* the cores shown by the rows, left to right and top to bottom
RECURSIVE Flatten(_)
Flatten(rows) == IF rows = <<>> THEN <<>> ELSE Head(rows) \o Flatten(Tail(rows))
ShownCores(rows) == SelectSeq(Flatten(rows), LAMBDA c : c.kind = "core")

\* C2: the column count is terminal_width // column_width but never less
\* than 1, also for a terminal narrower than one column and for an unreadable
\* terminal size, so the CPU section always completes and renders every core.
C2_ColumnsAtLeastOne ==
    CpuCalled =>
        /\ cpu_usage.raised = "none"
        /\ cpu_usage.columns >= 1
        /\ terminal.tty =>
              cpu_usage.columns = Max(terminal.columns \div cpu_usage.column_width, 1)
        /\ Len(ShownCores(cpu_usage.rows)) = Len(cpu_percentages)

Ceil(a, b) == (a + b - 1) \div b

\* C7: for n cores and c >= 1 columns the cores are laid out row-major in
\* provider order: ceil(n/c) rows of exactly c cells, row r holding cores
\* r*c .. min(r*c + c, n) - 1 left to right, the rest of the last row being
\* blank cells of the column width; every core appears exactly once.
C7_RowMajorLayout ==
    CpuRendered =>
        LET n == Len(cpu_percentages)
            c == cpu_usage.columns
            rows == cpu_usage.rows
        IN  /\ c >= 1
            /\ Len(rows) = Ceil(n, c)
            /\ \A r \in 1..Len(rows) :
                 /\ Len(rows[r]) = c
                 /\ \A k \in 1..c :
                      LET i == (r - 1) * c + (k - 1)
                      IN  IF i < n
                          THEN /\ rows[r][k].kind = "core"
                               /\ rows[r][k].core = i
                               /\ rows[r][k].bar =
                                    create_cpu_usage_bar(cpu_percentages[i + 1], CPU_BAR_LENGTH)
                          ELSE rows[r][k] = blank_cell(cpu_usage.column_width)
            /\ \A i \in 0..(n - 1) :
                 Cardinality({rk \in (1..Len(rows)) \X (1..c) :
                                 /\ rows[rk[1]][rk[2]].kind = "core"
                                 /\ rows[rk[1]][rk[2]].core = i}) = 1

\* C7 witness: 8 cores in 3 columns give [0,1,2],[3,4,5],[6,7,blank]
C7_Witness ==
    /\ CpuRendered
    /\ Len(cpu_percentages) = 8
    /\ cpu_usage.columns = 3
    /\ Len(cpu_usage.rows) = 3
    /\ cpu_usage.rows[3][1].kind = "core" /\ cpu_usage.rows[3][1].core = 6
    /\ cpu_usage.rows[3][2].kind = "core" /\ cpu_usage.rows[3][2].core = 7
    /\ cpu_usage.rows[3][3].kind = "blank"

-----------------------------------------------------------------------------
(* Per-user aggregation section *)

cpu_threshold == 10         \* 0.01 %
memory_threshold == 10      \* 0.01 %

\* f"{(a / b):.2f}" for the quotient of two Milli values: hundredths shown
Format2fRatio(a, b) == (2 * a + 10 * b) \div (20 * b)

\* index of the user's entry in the dict (kept in insertion order), 0 if absent
user_index(usage, username) ==
    IF \E i \in 1..Len(usage) : usage[i].user = username
    THEN CHOOSE i \in 1..Len(usage) : usage[i].user = username
    ELSE 0

\* the body of the loop over psutil.process_iter: user_usage[username] is
\* created with zeros on first access, then accumulated
accumulate(usage, proc_info) ==
    IF proc_info.username = "" THEN usage
    ELSE LET i == user_index(usage, proc_info.username)
             old == IF i = 0
                    THEN [user |-> proc_info.username, cpu |-> 0, memory |-> 0, processes |-> 0]
                    ELSE usage[i]
             new == [old EXCEPT !.cpu = @ + proc_info.cpu_percent,
                                !.memory = @ + proc_info.memory_percent,
                                !.processes = @ + 1]
         IN  IF i = 0 THEN Append(usage, new) ELSE [usage EXCEPT ![i] = new]

RECURSIVE aggregate(_, _)
aggregate(usage, ps) ==
    IF ps = <<>> THEN usage ELSE aggregate(accumulate(usage, Head(ps)), Tail(ps))

user_passes_both(usage, ncpus) ==
    usage.cpu > cpu_threshold * ncpus /\ usage.memory > memory_threshold

\* (usage['cpu'] / num_cpus) > cpu_threshold or usage['memory'] > memory_threshold
user_passes(usage, ncpus) ==
    usage.cpu > cpu_threshold * ncpus \/ usage.memory > memory_threshold

user_row(usage, ncpus) ==
    [Username     |-> usage.user,
     cpu_color    |-> get_usage_color(usage.cpu \div ncpus),
     cpu_text     |-> Format2fRatio(usage.cpu, ncpus),
     memory_color |-> get_usage_color(usage.memory),
     memory_text  |-> Format2f(usage.memory),
     ProcessCount |-> usage.processes]

display_user_usage(ps, ncpus) ==
    LET usage == aggregate(<<>>, ps)
        kept == SelectSeq(usage, LAMBDA u : user_passes(u, ncpus))
        filtered_user_data == [i \in 1..Len(kept) |-> user_row(kept[i], ncpus)]
    IN  [fn |-> "display_user_usage",
         text |-> IF filtered_user_data # <<>>
                  THEN "table" ELSE "No users exceed the specified thresholds.",
         rows |-> filtered_user_data]

MaxProcs == 3               \* up to MaxProcs processes are running
MaxCpus == 4                \* psutil.cpu_count() is 1 .. MaxCpus

Usernames == {"", "alice", "bob"}
\* <<cpu_percent, memory_percent>> of a process, in Milli units
ProcSamples == {<<50000, 10000>>, <<30000, 5000>>, <<1, 1>>, <<20, 0>>, <<0, 10>>}
ProcInfos ==
    {[username |-> u, cpu_percent |-> cm[1], memory_percent |-> cm[2]] :
        u \in Usernames, cm \in ProcSamples}

InitUser ==
    /\ \E n \in 0..MaxProcs : procs \in [1..n -> ProcInfos]
    /\ num_cpus \in 1..MaxCpus
    /\ user_usage = NotCalled
    /\ IdleBar /\ IdleCpu /\ IdleDu /\ IdleDio /\ IdleLoop /\ IdleTerminal

CallDisplayUser ==
    /\ user_usage = NotCalled
    /\ user_usage' = display_user_usage(procs, num_cpus)
    /\ UNCHANGED <<procs, num_cpus, barVars, cpuVars, duVars, dioVars, loopVars, terminal>>

NextUser == CallDisplayUser

SpecUser == InitUser /\ [][NextUser]_vars

UserCalled == user_usage.fn # "none"

RECURSIVE SetSum(_, _)
\* the sum of f[i] over the finite set S
SetSum(f, S) ==
    IF S = {} THEN 0
    ELSE LET x == CHOOSE y \in S : TRUE IN f[x] + SetSum(f, S \ {x})

ProcsOf(u) == {i \in 1..Len(procs) : procs[i].username = u}
CpuSumOf(u) == SetSum([i \in 1..Len(procs) |-> procs[i].cpu_percent], ProcsOf(u))
MemSumOf(u) == SetSum([i \in 1..Len(procs) |-> procs[i].memory_percent], ProcsOf(u))
RowsOf(u) == {i \in 1..Len(user_usage.rows) : user_usage.rows[i].Username = u}
Abs(x) == IF x >= 0 THEN x ELSE -x

\* C6: for every non-empty username u the row shows CPU% = (sum of u's
\* cpu_percent) / C, memory% = sum of u's memory_percent (not divided), both
\* to two decimals, and the number of u's processes; processes with an empty
\* username contribute to no user; and u has a row iff CPU% > 0.01 or
\* memory% > 0.01 (strict).
C6_UserAggregation ==
    UserCalled =>
        /\ \A i \in 1..Len(user_usage.rows) :
              /\ user_usage.rows[i].Username # ""
              /\ ProcsOf(user_usage.rows[i].Username) # {}
        /\ \A u \in Usernames \ {""} :
              /\ (RowsOf(u) # {}) <=>
                    \/ CpuSumOf(u) > 10 * num_cpus
                    \/ MemSumOf(u) > 10
              /\ Cardinality(RowsOf(u)) <= 1
              /\ \A i \in RowsOf(u) :
                    LET row == user_usage.rows[i]
                    IN  /\ row.ProcessCount = Cardinality(ProcsOf(u))
                        /\ Abs(row.cpu_text * 10 * num_cpus - CpuSumOf(u)) <= 5 * num_cpus
                        /\ Abs(row.memory_text * 10 - MemSumOf(u)) <= 5

\* C6 witness: [(alice,50,10),(alice,30,5),(bob,0.001,0.001)] on 4 cores
\* gives alice 20.00 / 15.00 / 2 and no row for bob
C6_Witness ==
    /\ UserCalled
    /\ num_cpus = 4
    /\ procs = <<[username |-> "alice", cpu_percent |-> 50000, memory_percent |-> 10000],
                 [username |-> "alice", cpu_percent |-> 30000, memory_percent |-> 5000],
                 [username |-> "bob", cpu_percent |-> 1, memory_percent |-> 1]>>
    /\ Len(user_usage.rows) = 1
    /\ user_usage.rows[1].Username = "alice"
    /\ user_usage.rows[1].cpu_text = 2000
    /\ user_usage.rows[1].memory_text = 1500
    /\ user_usage.rows[1].ProcessCount = 2

-----------------------------------------------------------------------------
(* Disk usage section.  Sizes are counted in MiB: 1 GB = 1024, 1 TB = 1024^2 *)

DISK_BAR_LENGTH == 30
GB == 1024
TB == GB * GB

\* format_size(size): TB from 1024^4 bytes on, GB below; two decimals
format_size(size) ==
    IF size >= TB
    THEN [text |-> "size", unit |-> "TB", hundredths |-> (200 * size + TB) \div (2 * TB)]
    ELSE [text |-> "size", unit |-> "GB", hundredths |-> (200 * size + GB) \div (2 * GB)]

PermissionDenied == [text |-> "Permission Denied"]

\* the row appended for one partition: the try branch, or the except branch
\* when psutil.disk_usage raises PermissionError
partition_row(partition) ==
    IF partition.usage.denied
    THEN [mountpoint |-> partition.mountpoint,
          total |-> PermissionDenied,
          used  |-> PermissionDenied,
          free  |-> PermissionDenied,
          usage |-> PermissionDenied]
    ELSE [mountpoint |-> partition.mountpoint,
          total |-> format_size(partition.usage.total),
          used  |-> format_size(partition.usage.used),
          free  |-> format_size(partition.usage.free),
          usage |-> [text |-> "bar",
                     bar |-> create_disk_usage_bar(partition.usage.percent, DISK_BAR_LENGTH)]]

disk_table_data_skipping(parts) ==
    LET readable == SelectSeq(parts, LAMBDA q : ~q.usage.denied)
    IN  [i \in 1..Len(readable) |-> partition_row(readable[i])]

\* table_data after the loop over partitions
disk_table_data(parts) == [i \in 1..Len(parts) |-> partition_row(parts[i])]

display_disk_usage(parts) ==
    [fn |-> "display_disk_usage",
     headers |-> <<"Mountpoint", "Total", "Used", "Free", "Usage">>,
     table_data |-> disk_table_data(parts)]

MaxPartitions == 3          \* up to MaxPartitions mounted partitions

Mountpoints == <<"/", "/boot", "/home", "/mnt/a", "/mnt/b", "/mnt/c">>
\* outcomes of psutil.disk_usage(mountpoint)
UsageSamples ==
    {[denied |-> TRUE,  total |-> 0, used |-> 0, free |-> 0, percent |-> 0],
     [denied |-> FALSE, total |-> 2 * TB, used |-> TB, free |-> TB, percent |-> 50 * Milli],
     [denied |-> FALSE, total |-> 477, used |-> 477, free |-> 0, percent |-> 100 * Milli],
     [denied |-> FALSE, total |-> 100 * GB, used |-> 12 * GB + 345, free |-> 87 * GB + 679,
      percent |-> 12300]}

InitDiskUsage ==
    /\ \E n \in 0..MaxPartitions : \E us \in [1..n -> UsageSamples] :
          partitions = [i \in 1..n |-> [mountpoint |-> Mountpoints[i], usage |-> us[i]]]
    /\ disk_usage = NotCalled
    /\ IdleBar /\ IdleCpu /\ IdleUser /\ IdleDio /\ IdleLoop /\ IdleTerminal

CallDisplayDiskUsage ==
    /\ disk_usage = NotCalled
    /\ disk_usage' = display_disk_usage(partitions)
    /\ UNCHANGED <<partitions, barVars, cpuVars, userVars, dioVars, loopVars, terminal>>

NextDiskUsage == CallDisplayDiskUsage

SpecDiskUsage == InitDiskUsage /\ [][NextDiskUsage]_vars

DiskUsageCalled == disk_usage.fn # "none"

\* the size cell shows `size` in TB from 1 TB on and in GB below, to two decimals
ShowsSize(cell, size) ==
    /\ cell.text = "size"
    /\ cell.unit = (IF size >= 1024 * 1024 THEN "TB" ELSE "GB")
    /\ LET one == IF size >= 1024 * 1024 THEN 1024 * 1024 ELSE 1024
       IN  2 * Abs(cell.hundredths * one - 100 * size) <= one

\* C8: the disk usage table has exactly one row per partition, in partition
\* order; the row of a partition whose usage read fails with a permission
\* error keeps its mountpoint and carries "Permission Denied" in the total,
\* used, free and bar fields; every other row carries its real values; the
\* failure never aborts the table (also for zero or one partitions).
C8_PermissionDeniedRows ==
    DiskUsageCalled =>
        LET rows == disk_usage.table_data
        IN  /\ Len(rows) = Len(partitions)
            /\ \A i \in 1..Len(partitions) :
                 LET q == partitions[i].usage
                 IN  /\ rows[i].mountpoint = partitions[i].mountpoint
                     /\ q.denied =>
                          /\ rows[i].total.text = "Permission Denied"
                          /\ rows[i].used.text  = "Permission Denied"
                          /\ rows[i].free.text  = "Permission Denied"
                          /\ rows[i].usage.text = "Permission Denied"
                     /\ ~q.denied =>
                          /\ ShowsSize(rows[i].total, q.total)
                          /\ ShowsSize(rows[i].used, q.used)
                          /\ ShowsSize(rows[i].free, q.free)
                          /\ rows[i].usage.text = "bar"
                          /\ rows[i].usage.bar.hashes = (q.percent * 30) \div (100 * Milli)
                          /\ rows[i].usage.bar.text = Format2f(q.percent)

\* C8 witness: three partitions, the middle one unreadable, rendered as
\* three rows with the sentinel in the middle row only
C8_Witness ==
    /\ DiskUsageCalled
    /\ Len(partitions) = 3
    /\ ~partitions[1].usage.denied
    /\ partitions[2].usage.denied
    /\ ~partitions[3].usage.denied
    /\ Len(disk_usage.table_data) = 3
    /\ disk_usage.table_data[1].total.text = "size"
    /\ disk_usage.table_data[2].total = PermissionDenied
    /\ disk_usage.table_data[3].total.text = "size"

-----------------------------------------------------------------------------
(* Disk I/O section.  A row is identified by the disk it shows. *)

len_coltitle_disk == 4              \* len("Disk")
len_coltitle_readwrite_speed == 17  \* len("Read/Write (MB/s)")
MAX_TABLES == 10

disk_row(disk) == [kind |-> "disk", disk |-> disk]
blank_row == [kind |-> "blank"]

\* combined_width = disk_width + max_readwrite_speed_len, for a non-empty dict
disk_io_combined_width(disks) ==
    LET disk_width == Max(SeqMax([i \in 1..Len(disks) |-> Len(disks[i])]), len_coltitle_disk)
        max_readwrite_speed_len == len_coltitle_readwrite_speed + 8
    IN  disk_width + max_readwrite_speed_len

\* N = min(terminal_width // combined_width, 10); N = max(N, 1)
sub_table_count(terminal_width, combined_width) ==
    Max(Min(terminal_width \div combined_width, MAX_TABLES), 1)

disk_io_tables_contiguous(disks, N) ==
    [t \in 1..N |->
        LET size == Ceil(Len(disks), N)
            mine == SelectSeq([i \in 1..Len(disks) |-> i],
                              LAMBDA i : (i - 1) \div size = t - 1)
        IN  [k \in 1..Len(mine) |-> disk_row(disks[mine[k]])]]

\* tables[i % N].append(row) for i, disk in enumerate(curr_disk_io)
disk_io_tables(disks, N) ==
    [t \in 1..N |->
        LET mine == SelectSeq([i \in 1..Len(disks) |-> i], LAMBDA i : (i - 1) % N = t - 1)
        IN  [k \in 1..Len(mine) |-> disk_row(disks[mine[k]])]]

\* row_parts at the end of iteration i of the outer loop of tables_side_by_side:
\* row i of every table or a blank, then one more blank
row_parts_at(tables, i) ==
    Append([t \in 1..Len(tables) |->
               IF i < Len(tables[t]) THEN tables[t][i + 1] ELSE blank_row],
           blank_row)

\* tables_side_by_side(tables): disk_io_rows.append(...) stands after the
\* loop over the row indices, so it runs once, with the last row_parts
tables_side_by_side(tables) ==
    LET max_len == SeqMax([t \in 1..Len(tables) |-> Len(tables[t])])
    IN  IF max_len = 0 THEN [raised |-> "UnboundLocalError", rows |-> <<>>]
        ELSE [raised |-> "none", rows |-> <<row_parts_at(tables, max_len - 1)>>]

display_disk_io(disks, term) ==
    LET fn == "display_disk_io"
    IN  IF Len(disks) = 0 THEN [fn |-> fn, raised |-> "ValueError"]
        ELSE IF ~term.tty THEN [fn |-> fn, raised |-> "OSError"]
        ELSE LET combined_width == disk_io_combined_width(disks)
                 N == sub_table_count(term.columns, combined_width)
                 tables == disk_io_tables(disks, N)
                 side == tables_side_by_side(tables)
             IN  [fn |-> fn, raised |-> side.raised, N |-> N,
                  tables |-> tables, rows |-> side.rows]

MaxDisks == 12              \* up to MaxDisks disks
MaxDiskIOWidth == 360       \* the disk I/O section is tried on widths 0 .. MaxDiskIOWidth

DiskNames == <<"sda", "sdb", "nvme0n1", "sdc", "sdd", "sde", "sdf", "sdg",
               "sdh", "sdi", "sdj", "sdk", "sdl", "sdm", "sdn", "sdo">>

DiskIOTerminals ==
    {NoTerminal} \cup {[tty |-> TRUE, columns |-> w] : w \in 0..MaxDiskIOWidth}

InitDiskIO ==
    /\ \E n \in 0..MaxDisks : disk_io = SubSeq(DiskNames, 1, n)
    /\ terminal \in DiskIOTerminals
    /\ disk_io_out = NotCalled
    /\ IdleBar /\ IdleCpu /\ IdleUser /\ IdleDu /\ IdleLoop

CallDisplayDiskIO ==
    /\ disk_io_out = NotCalled
    /\ disk_io_out' = display_disk_io(disk_io, terminal)
    /\ UNCHANGED <<disk_io, terminal, barVars, cpuVars, userVars, duVars, loopVars>>

NextDiskIO == CallDisplayDiskIO

SpecDiskIO == InitDiskIO /\ [][NextDiskIO]_vars

DiskIOCalled == disk_io_out.fn # "none"
DiskIORendered == DiskIOCalled /\ disk_io_out.raised = "none"

\* C3: the disk I/O section outputs one line per row index 0 .. (longest
\* sub-table length - 1), line i joining row i of every sub-table with a
\* blank cell where a sub-table has no row i; so every sampled disk appears
\* in exactly one cell of the output and no disk is dropped.
C3_OneLinePerRow ==
    DiskIORendered =>
        LET tables == disk_io_out.tables
            rows == disk_io_out.rows
            max_len == SeqMax([t \in 1..Len(tables) |-> Len(tables[t])])
        IN  /\ Len(rows) = max_len
            /\ \A i \in 1..Len(rows) : \A t \in 1..Len(tables) :
                  rows[i][t] = IF i <= Len(tables[t]) THEN tables[t][i] ELSE blank_row
            /\ \A d \in 1..Len(disk_io) :
                  Cardinality({ik \in (1..Len(rows)) \X (1..(Len(tables) + 1)) :
                                  /\ ik[2] <= Len(rows[ik[1]])
                                  /\ rows[ik[1]][ik[2]] = disk_row(disk_io[d])}) = 1

\* the cells of the sub-tables that show the disk
PlacesOf(tables, disk) ==
    {tk \in (1..Len(tables)) \X (1..Len(disk_io)) :
        /\ tk[2] <= Len(tables[tk[1]])
        /\ tables[tk[1]][tk[2]] = [kind |-> "disk", disk |-> disk]}

\* C12: for every terminal width and per-table width the sub-table count is
\* N = max(1, min(terminal_width // per_table_width, 10)), so 1 <= N <= 10;
\* the disk at enumeration index i is placed in sub-table i mod N
\* (round-robin), each disk is placed in exactly one sub-table, and the
\* sub-table lengths differ by at most 1.
C12_RoundRobinSubTables ==
    DiskIORendered =>
        LET n == Len(disk_io)
            per_table_width == disk_io_combined_width(disk_io)
            fit == terminal.columns \div per_table_width
            N == disk_io_out.N
            tables == disk_io_out.tables
        IN  /\ N = (IF fit < 1 THEN 1 ELSE IF fit > 10 THEN 10 ELSE fit)
            /\ 1 <= N /\ N <= 10
            /\ Len(tables) = N
            /\ \A i \in 0..(n - 1) :
                  /\ PlacesOf(tables, disk_io[i + 1]) # {}
                  /\ \A tk \in PlacesOf(tables, disk_io[i + 1]) : tk[1] - 1 = i % N
                  /\ Cardinality(PlacesOf(tables, disk_io[i + 1])) = 1
            /\ \A t, u \in 1..N : Len(tables[t]) - Len(tables[u]) <= 1

\* C12 witness: 12 disks on a terminal wide enough for more than 10
\* sub-tables: N is capped at 10, disks 0 and 10 share the first sub-table,
\* disks 1 and 11 the second, the third holds disk 2 alone
C12_Witness ==
    /\ DiskIORendered
    /\ Len(disk_io) = 12
    /\ terminal.columns \div disk_io_combined_width(disk_io) > 10
    /\ disk_io_out.N = 10
    /\ disk_io_out.tables[1] = <<disk_row(disk_io[1]), disk_row(disk_io[11])>>
    /\ disk_io_out.tables[2] = <<disk_row(disk_io[2]), disk_row(disk_io[12])>>
    /\ disk_io_out.tables[3] = <<disk_row(disk_io[3])>>

-----------------------------------------------------------------------------
(* The __main__ script: parse_arguments, then the refresh loop inside       *)
(* try ... except KeyboardInterrupt.  pc names the statement about to run.  *)

MaxTicks == 2               \* the loop is followed for MaxTicks ticks

Intervals == {-1, 0, 5}     \* values of --interval (default 5)
Args ==
    [interval : Intervals, show_network : BOOLEAN, show_load : BOOLEAN,
     show_system : BOOLEAN, show_disk_io : BOOLEAN, show_all : BOOLEAN,
     show_most : BOOLEAN]

\* the statements of a tick, in program order
TickPcs == <<"header", "disk_usage", "memory", "cpu", "user", "network", "load",
             "system", "disk_io", "disk_io_sleep", "disk_io_layout", "footer",
             "print", "sleep", "clear">>
LoopPcs == {"clear_first"} \cup {TickPcs[i] : i \in 1..Len(TickPcs)}

\* the statements covered by try: ... except KeyboardInterrupt
in_try(p) == p \in LoopPcs

network_enabled(a) == a.show_network \/ a.show_all
load_enabled(a)    == a.show_load \/ a.show_all
system_enabled(a)  == a.show_system \/ a.show_all

disk_io_enabled_without_most(a) == a.show_disk_io \/ a.show_all

disk_io_enabled(a) == a.show_disk_io \/ a.show_all \/ a.show_most

\* the terminals the loop is run on: none, a narrow one and a wide one
LoopTerminals ==
    {NoTerminal} \cup {[tty |-> TRUE, columns |-> w] : w \in {0, MaxTerminalWidth}}

InitLoop ==
    /\ args \in Args
    /\ terminal \in LoopTerminals
    /\ pc = "parse_arguments"
    /\ output = <<>>
    /\ stdout = <<>>
    /\ tick = 0
    /\ raised = "none"
    /\ sigint = FALSE
    /\ exit_code = -1
    /\ IdleBar /\ IdleCpu /\ IdleUser /\ IdleDu /\ IdleDio

sectionVars == <<barVars, cpuVars, userVars, duVars, dioVars>>

\* an exception other than KeyboardInterrupt leaves the script with a traceback
Crash(exception) ==
    /\ pc' = "crashed"
    /\ raised' = exception
    /\ exit_code' = 1
    /\ UNCHANGED <<args, terminal, output, stdout, tick, sigint, sectionVars>>

\* output.append(section); continue with the next statement
Emit(section, next) ==
    /\ output' = Append(output, section)
    /\ pc' = next
    /\ UNCHANGED <<args, terminal, stdout, tick, raised, exit_code, sigint, sectionVars>>

Skip(next) ==
    /\ pc' = next
    /\ UNCHANGED <<args, terminal, output, stdout, tick, raised, exit_code, sigint, sectionVars>>

ParseArguments ==
    /\ pc = "parse_arguments"
    /\ Skip("clear_first")

ClearFirst ==
    /\ pc = "clear_first"
    /\ Skip("header")

\* while True: output = [] and the title line
StartTick ==
    /\ pc = "header"
    /\ tick < MaxTicks
    /\ tick' = tick + 1
    /\ output' = <<"header">>
    /\ pc' = "disk_usage"
    /\ UNCHANGED <<args, terminal, stdout, raised, exit_code, sigint, sectionVars>>

RenderDiskUsage == pc = "disk_usage" /\ Emit("disk_usage", "memory")

RenderMemory == pc = "memory" /\ Emit("memory", "cpu")

RenderCpu ==
    /\ pc = "cpu"
    /\ \E n \in 1..MaxCores, p \in CpuSamples :
          LET r == display_cpu_usage_in_columns([i \in 1..n |-> p], terminal)
          IN  IF r.raised = "none" THEN Emit("cpu", "user") ELSE Crash(r.raised)

RenderUser == pc = "user" /\ Emit("user", "network")

RenderNetwork ==
    /\ pc = "network"
    /\ IF network_enabled(args) THEN Emit("network", "load") ELSE Skip("load")

RenderLoad ==
    /\ pc = "load"
    /\ IF load_enabled(args) THEN Emit("load", "system") ELSE Skip("system")

RenderSystem ==
    /\ pc = "system"
    /\ IF system_enabled(args) THEN Emit("system", "disk_io") ELSE Skip("disk_io")

\* display_disk_io up to the first sample (lines 363-384)
DiskIOSample ==
    /\ pc = "disk_io"
    /\ IF disk_io_enabled(args)
       THEN \E n \in 0..MaxDisks :
               IF n = 0 THEN Crash("ValueError") ELSE Skip("disk_io_sleep")
       ELSE Skip("footer")

\* time.sleep(poll_interval)
DiskIOPause ==
    /\ pc = "disk_io_sleep"
    /\ Skip("disk_io_layout")

\* display_disk_io from the second sample on (lines 387-420)
DiskIOLayout ==
    /\ pc = "disk_io_layout"
    /\ \E n \in 1..MaxDisks :
          LET r == display_disk_io(SubSeq(DiskNames, 1, n), terminal)
          IN  IF r.raised = "none" THEN Emit("disk_io", "footer") ELSE Crash(r.raised)

Footer ==
    /\ pc = "footer"
    /\ output' = output \o <<"footer", "hint">>
    /\ pc' = "print"
    /\ UNCHANGED <<args, terminal, stdout, tick, raised, exit_code, sigint, sectionVars>>

\* print("\n".join(output))
PrintFrame ==
    /\ pc = "print"
    /\ stdout' = Append(stdout, [kind |-> "frame", sections |-> output])
    /\ pc' = "sleep"
    /\ UNCHANGED <<args, terminal, output, tick, raised, exit_code, sigint, sectionVars>>

SleepAcceptsNegative ==
    /\ pc = "sleep"
    /\ Skip("clear")

\* time.sleep(args.interval) raises ValueError for a negative length
Sleep ==
    /\ pc = "sleep"
    /\ IF args.interval < 0 THEN Crash("ValueError") ELSE Skip("clear")

Clear ==
    /\ pc = "clear"
    /\ Skip("header")

\* Ctrl+C while the interpreter runs the script: KeyboardInterrupt is raised
\* in the statement at pc
KeyboardInterrupt ==
    /\ pc \in LoopPcs \cup {"parse_arguments"}
    /\ sigint' = TRUE
    /\ raised' = "KeyboardInterrupt"
    /\ IF in_try(pc)
       THEN pc' = "except" /\ exit_code' = exit_code
       ELSE pc' = "crashed" /\ exit_code' = 130
    /\ UNCHANGED <<args, terminal, output, stdout, tick, sectionVars>>

\* except KeyboardInterrupt: print the notice; the script ends
ExceptKeyboardInterrupt ==
    /\ pc = "except"
    /\ stdout' = Append(stdout, [kind |-> "exit_notice", sections |-> <<>>])
    /\ pc' = "exited"
    /\ exit_code' = 0
    /\ UNCHANGED <<args, terminal, output, tick, raised, sigint, sectionVars>>

\* Ctrl+C while clear_console() waits in os.system('clear'): the C library's
\* system() ignores SIGINT in the calling process until the command has
\* ended, so no KeyboardInterrupt is raised and the script goes on
SigintDuringClear ==
    /\ pc \in {"clear_first", "clear"}
    /\ ~sigint
    /\ sigint' = TRUE
    /\ UNCHANGED <<args, terminal, pc, output, stdout, tick, raised, exit_code, sectionVars>>

\* the user resizes the terminal while the script runs
ResizeTerminal ==
    /\ pc \in LoopPcs
    /\ terminal.tty
    /\ terminal' \in {t \in LoopTerminals : t.tty /\ t # terminal}
    /\ UNCHANGED <<loopVars, sectionVars>>

Next ==
    \/ ParseArguments \/ ClearFirst \/ StartTick
    \/ RenderDiskUsage \/ RenderMemory \/ RenderCpu \/ RenderUser
    \/ RenderNetwork \/ RenderLoad \/ RenderSystem
    \/ DiskIOSample \/ DiskIOPause \/ DiskIOLayout
    \/ Footer \/ PrintFrame \/ Sleep \/ Clear
    \/ KeyboardInterrupt \/ SigintDuringClear \/ ExceptKeyboardInterrupt
    \/ ResizeTerminal

Spec == InitLoop /\ [][Next]_vars

-----------------------------------------------------------------------------
(* Properties of the refresh loop *)

\* C4: whenever the terminal size provider fails, every width-dependent
\* section falls back to a default column count and still renders: the CPU
\* section and the disk I/O section return their text block instead of
\* raising, so a tick with disk I/O enabled does not crash the tool.
C4_TerminalFailureFallsBack ==
    ~terminal.tty =>
        /\ raised # "OSError"
        /\ pc \in {"footer", "print"} =>
              /\ \E i \in 1..Len(output) : output[i] = "cpu"
              /\ (args.show_disk_io \/ args.show_all \/ args.show_most) =>
                    \E i \in 1..Len(output) : output[i] = "disk_io"

Opt(flag, section) == IF flag THEN <<section>> ELSE <<>>

\* the frame the flags call for
ExpectedFrame(a) ==
    <<"header", "disk_usage", "memory", "cpu", "user">>
        \o Opt(a.show_network \/ a.show_all, "network")
        \o Opt(a.show_load \/ a.show_all, "load")
        \o Opt(a.show_system \/ a.show_all, "system")
        \o Opt(a.show_disk_io \/ a.show_all \/ a.show_most, "disk_io")
        \o <<"footer", "hint">>

Frames == SelectSeq(stdout, LAMBDA o : o.kind = "frame")
Notices == SelectSeq(stdout, LAMBDA o : o.kind = "exit_notice")

RenderingPcs ==
    {"disk_usage", "memory", "cpu", "user", "network", "load", "system",
     "disk_io", "disk_io_sleep", "disk_io_layout", "footer", "print"}

FramesAsFlagged ==
    /\ \A i \in 1..Len(Frames) : Frames[i].sections = ExpectedFrame(args)
    /\ pc \in RenderingPcs => Len(Frames) = tick - 1
    /\ pc \in {"parse_arguments", "clear_first", "header", "sleep", "clear"} =>
          Len(Frames) = tick

TickStepsInOrder ==
    /\ (pc' = "print" /\ pc # "print") => pc = "footer"
    /\ (pc' = "sleep" /\ pc # "sleep") =>
          pc = "print" /\ stdout' = Append(stdout, [kind |-> "frame", sections |-> output])
    /\ (pc' = "clear" /\ pc # "clear") => pc = "sleep"
    /\ (pc' = "header" /\ pc # "header") => pc \in {"clear", "clear_first"}
    /\ tick' # tick => pc = "header" /\ tick' = tick + 1
    /\ (stdout' # stdout /\ pc' # "exited") => pc = "print"

Interrupted == raised = "KeyboardInterrupt"

ExitsCleanly ==
    /\ pc = "exited" =>
          /\ Interrupted
          /\ exit_code = 0
          /\ Len(Notices) = 1
          /\ stdout[Len(stdout)].kind = "exit_notice"
    /\ exit_code = 0 => pc = "exited"
    /\ pc # "exited" => Len(Notices) = 0

InterruptEndsLoop ==
    /\ (~sigint /\ sigint' /\ pc # "parse_arguments") =>
          /\ pc' = "except"
          /\ tick' = tick
          /\ stdout' = stdout
    /\ (sigint /\ pc = "except" /\ pc' # pc) =>
          /\ pc' = "exited"
          /\ exit_code' = 0
    /\ (sigint /\ pc # "crashed") =>
          /\ tick' = tick
          /\ pc' \in {"except", "exited"}
          /\ Len(Frames') = Len(Frames)

\* C10: a user interrupt delivered at any point of the refresh loop (while
\* rendering, during the disk I/O pause, during the sleep, between
\* iterations) ends the loop at once: no further tick starts, the exit
\* notice is printed exactly once and the exit code is 0; and the loop ends
\* without an error only through the interrupt.
C10_InterruptExitsCleanly == []ExitsCleanly /\ [][InterruptEndsLoop]_vars

\* the sleep statement of a tick completes or raises (it is not interrupted)
SleepStep == pc = "sleep" /\ pc' # pc /\ raised' # "KeyboardInterrupt"

SleepReturnsForNegative ==
    (args.interval < 0 /\ SleepStep) =>
        /\ pc' = "clear"
        /\ raised' = "none"
        /\ exit_code' = exit_code

\* C11 (as claimed): a negative --interval is accepted by argument parsing
\* and the loop keeps running with it: after the first frame is printed the
\* sleep step returns and the loop proceeds to the next tick without delay
\* instead of terminating with an error.
C11_NegativeIntervalKeepsLooping == [][SleepReturnsForNegative]_vars

SleepRaisesForNegative ==
    (args.interval < 0 /\ SleepStep) =>
        /\ pc' = "crashed"
        /\ raised' = "ValueError"
        /\ exit_code' = 1
        /\ tick' = tick
        /\ stdout' = stdout

NegativeIntervalOneFrame ==
    args.interval < 0 =>
        /\ tick <= 1
        /\ Len(Frames) <= 1
        /\ pc # "clear"
        /\ pc = "sleep" => (tick = 1 /\ Len(Frames) = 1)

\* C11 (amended): a negative --interval is accepted by argument parsing and
\* the first tick runs with it, but after the first frame is printed the
\* sleep step raises ValueError: the script ends with an error (status 1),
\* no clear and no second tick follow.
C11_NegativeIntervalCrashesAtSleep ==
    []NegativeIntervalOneFrame /\ [][SleepRaisesForNegative]_vars

\* C11 witness: run with a negative interval, the first frame was printed
\* and the sleep step has ended the script with ValueError
C11_Witness ==
    /\ args.interval < 0
    /\ pc = "crashed" /\ raised = "ValueError" /\ exit_code = 1
    /\ tick = 1
    /\ Len(Frames) = 1
    /\ Frames[1].sections = ExpectedFrame(args)

=============================================================================
